---------------------------- MODULE Spec2Model ----------------------------
(***************************************************************************)
(* A model of the eventfd binding of src/src/lib.rs: the EventFD handle    *)
(* (new, read, write, events, clone, drop), the threads that own handles,  *)
(* and the part of the kernel the handle talks to (the descriptor table    *)
(* and the eventfd counter objects, as eventfd(2) and the doc comments of  *)
(* read and write describe them).                                          *)
(*                                                                         *)
(* Scaling: the 64-bit counter word is Bits bits wide and a byte of the    *)
(* 8-byte buffer is one bit of it, so 2^64 - 1 is U64Max = 2^Bits - 1,     *)
(* and the u32 initial value is one bit narrower than the counter.         *)
(***************************************************************************)
EXTENDS Integers, Sequences, FiniteSets, TLC

\* ------------------------------------------------------------------ bounds
Bits == 2
MaxFds == 2

U64Max == 2^Bits - 1
MaxCount == U64Max - 1
U32Max == 2^(Bits - 1) - 1

Fds == 1..MaxFds
Objs == {1}
Handles == 1..MaxFds
Streams == {1}
Threads == {"main", "second"}

EFD_NONBLOCK == "EFD_NONBLOCK"
EFD_SEMAPHORE == "EFD_SEMAPHORE"
EfdFlags == SUBSET {EFD_NONBLOCK, EFD_SEMAPHORE}

\* The values a caller passes: initial values are u32, deltas are u64.
InitVals == 0..U32Max
WriteVals == {0, 1, MaxCount, U64Max}

NoHandle == [fd |-> 0, flags |-> {}, owner |-> <<"none", "none">>]
User(t) == <<"user", t>>
Worker(s) == <<"worker", ToString(s)>>

NoArg == [h |-> 0, val |-> 0]
NoEv == [op |-> "none", obj |-> 0, flags |-> {}, kind |-> "none", val |-> 0]
NoChan == [buf |-> <<>>, rx |-> "none", tx |-> FALSE]
NoWorker == [pc |-> "none", h |-> 0, v |-> 0]

VARIABLES
    fdtab,      \* the process's descriptor table: fd -> counter object, 0 = closed
    cnt,        \* kernel: the counter of each object
    kflags,     \* kernel: the flags each object was created with
    hnd,        \* the EventFD values alive: slot -> [fd, flags, owner]
    pc,         \* each user thread: idle, read, write (inside a call), panicked (dead)
    arg,        \* the call a thread is inside: the handle and the value written
    ev,         \* the read or write that returned in the step just taken: the
                \* object and the handle's flags it went through, and its result
    chan,       \* events(): the sync_channel(1) of each stream
    wk,         \* events(): the worker thread of each stream
    acc,        \* history: per object, initial value + deltas of the writes that
                \* returned Ok - values the reads returned
    ref,        \* history: the object each handle was created for or cloned from
    badClose,   \* history: some close() failed or closed another handle's fd
    script,     \* what the threads run: "free" (any calls) or one of the scenarios
    par,        \* the scenario's values
    ip,         \* scenario: each thread's next instruction
    out         \* scenario: each thread's results so far, one per instruction

core == <<fdtab, cnt, kflags, hnd, pc, arg, chan, wk, acc, ref, badClose>>
vars == <<fdtab, cnt, kflags, hnd, pc, arg, ev, chan, wk, acc, ref, badClose,
          script, par, ip, out>>

\* ------------------------------------------------------- native byte order
\* The kernel exchanges the counter as the 8 bytes of a u64 in native order;
\* byte i of the buffer is digit i (least significant first).
RECURSIVE from_ne_bytes(_)
from_ne_bytes(buf) ==
    IF buf = <<>> THEN 0 ELSE Head(buf) + 2 * from_ne_bytes(Tail(buf))

to_ne_bytes(v) == [i \in 1..Bits |-> (v \div 2^(i - 1)) % 2]

Reverse(buf) == [i \in 1..Len(buf) |-> buf[Len(buf) + 1 - i]]

\* lib.rs:61  let val = unsafe { mem::transmute(buf) };
transmute_u64_swapped(buf) == from_ne_bytes(Reverse(buf))
transmute_u64(buf) == from_ne_bytes(buf)

\* lib.rs:67  let buf: [u8; 8] = unsafe { mem::transmute(val) };
transmute_bytes_swapped(val) == Reverse(to_ne_bytes(val))
transmute_bytes(val) == to_ne_bytes(val)

\* ------------------------------------------------------------------ kernel
LiveObj(o) == \E fd \in Fds : fdtab[fd] = o
FreeFds == {fd \in Fds : fdtab[fd] = 0}
FreeObjs == {o \in Objs : ~LiveObj(o)}
Min(S) == CHOOSE x \in S : \A y \in S : x <= y

\* eventfd(2): a new counter object on the lowest free descriptor; EMFILE when
\* the descriptor table is full, ENFILE when the system has no object left.
sys_eventfd(initval, flags) ==
    IF FreeFds = {} THEN [ret |-> "EMFILE", fd |-> 0, obj |-> 0]
    ELSE IF FreeObjs = {} THEN [ret |-> "ENFILE", fd |-> 0, obj |-> 0]
    ELSE [ret |-> "ok", fd |-> Min(FreeFds), obj |-> Min(FreeObjs)]

\* dup(2): the lowest free descriptor, on the same object.
sys_dup(fd) ==
    IF fdtab[fd] = 0 THEN [ret |-> "EBADF", fd |-> 0]
    ELSE IF FreeFds = {} THEN [ret |-> "EMFILE", fd |-> 0]
    ELSE [ret |-> "ok", fd |-> Min(FreeFds)]

\* What a read(2) of 8 bytes takes out of a counter holding c > 0.
read_amount_all(o) == cnt[o]
read_amount(o) == IF EFD_SEMAPHORE \in kflags[o] THEN 1 ELSE cnt[o]

\* read(2) on an eventfd: "block" stands for the call not returning yet.
sys_read(fd) ==
    LET o == fdtab[fd] IN
    IF o = 0 THEN [ret |-> "EBADF", buf |-> <<>>, count |-> 0]
    ELSE IF cnt[o] = 0
    THEN [ret |-> IF EFD_NONBLOCK \in kflags[o] THEN "EAGAIN" ELSE "block",
          buf |-> <<>>, count |-> 0]
    ELSE [ret |-> "ok", buf |-> to_ne_bytes(read_amount(o)),
          count |-> cnt[o] - read_amount(o)]

\* Whether a counter holding c has room for ucnt more.
has_room_always(c, ucnt) == TRUE
has_room_inclusive(c, ucnt) == U64Max - c >= ucnt
has_room(c, ucnt) == U64Max - c > ucnt

\* write(2) on an eventfd.
sys_write(fd, buf) ==
    LET o == fdtab[fd]
        ucnt == from_ne_bytes(buf) IN
    IF o = 0 THEN [ret |-> "EBADF", count |-> 0]
    ELSE IF ucnt = U64Max THEN [ret |-> "EINVAL", count |-> cnt[o]]
    ELSE IF ~has_room(cnt[o], ucnt)
    THEN [ret |-> IF EFD_NONBLOCK \in kflags[o] THEN "EAGAIN" ELSE "block",
          count |-> cnt[o]]
    ELSE [ret |-> "ok", count |-> (cnt[o] + ucnt) % 2^Bits]

\* io::Error::from_raw_os_error(errno).kind()
ErrorKind_other(errno) == "Other"
ErrorKind(errno) ==
    CASE errno = "EAGAIN" -> "WouldBlock"
      [] errno = "EINVAL" -> "InvalidInput"
      [] OTHER -> "Other"

\* lib.rs:26  nix_to_ioerr: Ok(val) passes, Err(errno) returns the io::Error.
nix_to_ioerr(ret) == IF ret = "ok" THEN "Ok" ELSE ErrorKind(ret)


\* --------------------------------------------------------------- EventFD
FreeSlots == {i \in Handles : hnd[i] = NoHandle}
Owned(t) == {i \in Handles : hnd[i] # NoHandle /\ hnd[i].owner = User(t)}
LiveHandles == {i \in Handles : hnd[i] # NoHandle}
Event(op, h, kind, val) ==
    [op |-> op, obj |-> fdtab[hnd[h].fd], flags |-> hnd[h].flags,
     kind |-> kind, val |-> val]

\* lib.rs:47  EventFD::new: eventfd(initval, flags), the flags kept in the handle.
new_with(initval, kernelflags, handleflags) ==
    LET r == sys_eventfd(initval, kernelflags) IN
    [kind |-> nix_to_ioerr(r.ret), fd |-> r.fd, obj |-> r.obj,
     count |-> initval, kflags |-> kernelflags, flags |-> handleflags]

EventFD_new_zero(initval, flags) == new_with(0, flags, flags)
EventFD_new_nonblock(initval, flags) ==
    new_with(initval, flags \cup {EFD_NONBLOCK}, flags)
EventFD_new(initval, flags) == new_with(initval, flags, flags)

\* lib.rs:58  EventFD::read: 8 bytes read from the fd, reinterpreted as a u64.
EventFD_read(h) ==
    LET r == sys_read(hnd[h].fd) IN
    [kind |-> IF r.ret = "block" THEN "block" ELSE nix_to_ioerr(r.ret),
     val |-> IF r.ret = "ok" THEN transmute_u64(r.buf) ELSE 0,
     count |-> r.count]

\* lib.rs:66  EventFD::write: the u64 reinterpreted as 8 bytes, written to the fd.
EventFD_write(h, val) ==
    LET r == sys_write(hnd[h].fd, transmute_bytes(val)) IN
    [kind |-> IF r.ret = "block" THEN "block" ELSE nix_to_ioerr(r.ret),
     count |-> r.count]

\* lib.rs:119  Clone: dup(self.fd).unwrap() and a copy of the flags. A failed dup
\* panics the calling thread.
EventFD_clone_alias(h) ==
    [ret |-> "ok", fd |-> hnd[h].fd, flags |-> hnd[h].flags, tab |-> fdtab]
EventFD_clone(h) ==
    LET r == sys_dup(hnd[h].fd) IN
    [ret |-> IF r.ret = "ok" THEN "ok" ELSE "panic",
     fd |-> r.fd, flags |-> hnd[h].flags,
     tab |-> IF r.ret = "ok"
             THEN [fdtab EXCEPT ![r.fd] = fdtab[hnd[h].fd]] ELSE fdtab]

\* lib.rs:104  as_raw_fd
as_raw_fd(h) == hnd[h].fd

\* lib.rs:110  Drop: let _ = close(self.fd), for each handle of S. The kernel
\* frees a counter object when its last descriptor is closed.
DropAll_leak(S) ==
    /\ hnd' = [i \in Handles |-> IF i \in S THEN NoHandle ELSE hnd[i]]
    /\ ref' = [i \in Handles |-> IF i \in S THEN 0 ELSE ref[i]]
    /\ UNCHANGED <<fdtab, cnt, kflags, acc, badClose>>
DropAll(S) ==
    LET fds == {hnd[h].fd : h \in S}
        tab == [fd \in Fds |-> IF fd \in fds THEN 0 ELSE fdtab[fd]]
        dead == {o \in Objs : LiveObj(o) /\ \A fd \in Fds : tab[fd] # o} IN
    /\ fdtab' = tab
    /\ cnt' = [o \in Objs |-> IF o \in dead THEN 0 ELSE cnt[o]]
    /\ kflags' = [o \in Objs |-> IF o \in dead THEN {} ELSE kflags[o]]
    /\ acc' = [o \in Objs |-> IF o \in dead THEN 0 ELSE acc[o]]
    /\ hnd' = [i \in Handles |-> IF i \in S THEN NoHandle ELSE hnd[i]]
    /\ ref' = [i \in Handles |-> IF i \in S THEN 0 ELSE ref[i]]
    /\ badClose' = \/ badClose
                   \/ \E h \in S : fdtab[hnd[h].fd] = 0
                   \/ \E h \in S : \E i \in LiveHandles \ {h} : hnd[i].fd = hnd[h].fd

\* ------------------------------------------------------------------- Init
CoreInit ==
    /\ fdtab = [fd \in Fds |-> 0]
    /\ cnt = [o \in Objs |-> 0]
    /\ kflags = [o \in Objs |-> {}]
    /\ hnd = [i \in Handles |-> NoHandle]
    /\ pc = [t \in Threads |-> "idle"]
    /\ arg = [t \in Threads |-> NoArg]
    /\ ev = NoEv
    /\ chan = [s \in Streams |-> NoChan]
    /\ wk = [s \in Streams |-> NoWorker]
    /\ acc = [o \in Objs |-> 0]
    /\ ref = [i \in Handles |-> 0]
    /\ badClose = FALSE

\* ----------------------------------------------------------------- events
FreeStreams == {s \in Streams : wk[s] = NoWorker /\ chan[s] = NoChan}
WorkerEnded(s) == wk[s].pc \in {"done", "panicked"}

\* The receivers of R are dropped, and what their channels still hold with them.
\* A stream's slot is free again once its worker has ended too.
DropReceivers(R) ==
    /\ chan' = [s \in Streams |->
                  IF s \notin R THEN chan[s]
                  ELSE IF WorkerEnded(s) THEN NoChan
                  ELSE [chan[s] EXCEPT !.rx = "dropped", !.buf = <<>>]]
    /\ wk' = [s \in Streams |->
                  IF s \in R /\ WorkerEnded(s) THEN NoWorker ELSE wk[s]]

\* A panic unwinds thread t: everything it owns is dropped and the thread is dead.
Panic(t) ==
    /\ pc' = [pc EXCEPT ![t] = "panicked"]
    /\ ev' = NoEv
    /\ DropAll(Owned(t))
    /\ DropReceivers({s \in Streams : chan[s].rx = t})
    /\ UNCHANGED arg

\* ---------------------------------------------------------------- actions
\* EventFD::new(initval, flags) called by thread t.
Create(t, initval, flags) ==
    /\ pc[t] = "idle"
    /\ FreeSlots # {}
    /\ LET r == EventFD_new(initval, flags)
           i == Min(FreeSlots) IN
       IF r.kind = "Ok"
       THEN /\ fdtab' = [fdtab EXCEPT ![r.fd] = r.obj]
            /\ cnt' = [cnt EXCEPT ![r.obj] = r.count]
            /\ kflags' = [kflags EXCEPT ![r.obj] = r.kflags]
            /\ hnd' = [hnd EXCEPT ![i] =
                          [fd |-> r.fd, flags |-> r.flags, owner |-> User(t)]]
            /\ acc' = [acc EXCEPT ![r.obj] = initval]
            /\ ref' = [ref EXCEPT ![i] = r.obj]
            /\ ev' = NoEv
       ELSE /\ ev' = NoEv
            /\ UNCHANGED <<fdtab, cnt, kflags, hnd, acc, ref>>
    /\ UNCHANGED <<pc, arg, chan, wk, badClose>>

\* Thread t enters h.read().
ReadCall(t, h) ==
    /\ pc[t] = "idle"
    /\ h \in Owned(t)
    /\ pc' = [pc EXCEPT ![t] = "read"]
    /\ arg' = [arg EXCEPT ![t] = [h |-> h, val |-> 0]]
    /\ ev' = NoEv
    /\ UNCHANGED <<fdtab, cnt, kflags, hnd, chan, wk, acc, ref, badClose>>

\* The read(2) of thread t is served and h.read() returns.
ReadReturn(t) ==
    /\ pc[t] = "read"
    /\ LET h == arg[t].h
           o == fdtab[hnd[h].fd]
           r == EventFD_read(h) IN
       /\ r.kind # "block"
       /\ ev' = Event("read", h, r.kind, r.val)
       /\ IF r.kind = "Ok"
          THEN /\ cnt' = [cnt EXCEPT ![o] = r.count]
               /\ acc' = [acc EXCEPT ![o] = acc[o] - r.val]
          ELSE UNCHANGED <<cnt, acc>>
    /\ pc' = [pc EXCEPT ![t] = "idle"]
    /\ arg' = [arg EXCEPT ![t] = NoArg]
    /\ UNCHANGED <<fdtab, kflags, hnd, chan, wk, ref, badClose>>

\* Thread t enters h.write(val).
WriteCall(t, h, val) ==
    /\ pc[t] = "idle"
    /\ h \in Owned(t)
    /\ pc' = [pc EXCEPT ![t] = "write"]
    /\ arg' = [arg EXCEPT ![t] = [h |-> h, val |-> val]]
    /\ ev' = NoEv
    /\ UNCHANGED <<fdtab, cnt, kflags, hnd, chan, wk, acc, ref, badClose>>

\* The write(2) of thread t is served and h.write(val) returns.
WriteReturn(t) ==
    /\ pc[t] = "write"
    /\ LET h == arg[t].h
           o == fdtab[hnd[h].fd]
           r == EventFD_write(h, arg[t].val) IN
       /\ r.kind # "block"
       /\ ev' = Event("write", h, r.kind, 0)
       /\ IF r.kind = "Ok"
          THEN /\ cnt' = [cnt EXCEPT ![o] = r.count]
               /\ acc' = [acc EXCEPT ![o] = acc[o] + arg[t].val]
          ELSE UNCHANGED <<cnt, acc>>
    /\ pc' = [pc EXCEPT ![t] = "idle"]
    /\ arg' = [arg EXCEPT ![t] = NoArg]
    /\ UNCHANGED <<fdtab, kflags, hnd, chan, wk, ref, badClose>>

\* h.clone() by thread t: a new handle owned by t, or t panics.
Clone(t, h) ==
    /\ pc[t] = "idle"
    /\ h \in Owned(t)
    /\ EventFD_clone(h).ret = "ok" => FreeSlots # {}
    /\ LET r == EventFD_clone(h)
           i == Min(FreeSlots) IN
       IF r.ret = "ok"
       THEN /\ fdtab' = r.tab
            /\ hnd' = [hnd EXCEPT ![i] =
                          [fd |-> r.fd, flags |-> r.flags, owner |-> User(t)]]
            /\ ref' = [ref EXCEPT ![i] = ref[h]]
            /\ ev' = NoEv
            /\ UNCHANGED <<cnt, kflags, pc, arg, chan, wk, acc, badClose>>
       ELSE Panic(t)

\* The handle h goes out of scope in thread t.
Drop(t, h) ==
    /\ pc[t] = "idle"
    /\ h \in Owned(t)
    /\ DropAll({h})
    /\ ev' = NoEv
    /\ UNCHANGED <<pc, arg, chan, wk>>

\* Thread t hands the handle h to thread t2 (EventFD is Send).
Move(t, h, t2) ==
    /\ pc[t] = "idle"
    /\ t2 # t
    /\ pc[t2] # "panicked"
    /\ h \in Owned(t)
    /\ hnd' = [hnd EXCEPT ![h].owner = User(t2)]
    /\ ev' = NoEv
    /\ UNCHANGED <<fdtab, cnt, kflags, pc, arg, chan, wk, acc, ref, badClose>>

\* lib.rs:83  h.events() by thread t: sync_channel(1), self.clone(), and a spawned
\* thread that owns the clone and the sender; t keeps the receiver.
Events(t, h) ==
    /\ pc[t] = "idle"
    /\ h \in Owned(t)
    /\ EventFD_clone(h).ret = "ok" => (FreeSlots # {} /\ FreeStreams # {})
    /\ LET r == EventFD_clone(h)
           i == Min(FreeSlots)
           s == Min(FreeStreams) IN
       IF r.ret = "ok"
       THEN /\ fdtab' = r.tab
            /\ hnd' = [hnd EXCEPT ![i] =
                          [fd |-> r.fd, flags |-> r.flags, owner |-> Worker(s)]]
            /\ ref' = [ref EXCEPT ![i] = ref[h]]
            /\ chan' = [chan EXCEPT ![s] = [buf |-> <<>>, rx |-> t, tx |-> TRUE]]
            /\ wk' = [wk EXCEPT ![s] = [pc |-> "read", h |-> i, v |-> 0]]
            /\ ev' = NoEv
            /\ UNCHANGED <<cnt, kflags, pc, arg, acc, badClose>>
       ELSE Panic(t)

\* The worker's thread ends: its clone and its sender are dropped. The stream's
\* slot is free again once the receiver is gone too.
WorkerEnds(s, how) ==
    /\ DropAll({wk[s].h})
    /\ IF chan[s].rx = "dropped"
       THEN /\ wk' = [wk EXCEPT ![s] = NoWorker]
            /\ chan' = [chan EXCEPT ![s] = NoChan]
       ELSE /\ wk' = [wk EXCEPT ![s] = [pc |-> how, h |-> 0, v |-> 0]]
            /\ chan' = [chan EXCEPT ![s].tx = FALSE]

\* lib.rs:88  match c.read(): Ok(v) goes on to send, any Err(e) goes to the panic.
WorkerRead(s) ==
    /\ wk[s].pc = "read"
    /\ LET h == wk[s].h
           o == fdtab[hnd[h].fd]
           r == EventFD_read(h) IN
       /\ r.kind # "block"
       /\ ev' = Event("read", h, r.kind, r.val)
       /\ IF r.kind = "Ok"
          THEN /\ cnt' = [cnt EXCEPT ![o] = r.count]
               /\ acc' = [acc EXCEPT ![o] = acc[o] - r.val]
               /\ wk' = [wk EXCEPT ![s].pc = "send", ![s].v = r.val]
          ELSE /\ wk' = [wk EXCEPT ![s].pc = "failed"]
               /\ UNCHANGED <<cnt, acc>>
    /\ UNCHANGED <<fdtab, kflags, hnd, ref, chan, badClose, pc, arg>>

\* lib.rs:93  panic!("read failed: {}", e): the worker's thread unwinds.
WorkerPanic(s) ==
    /\ wk[s].pc = "failed"
    /\ WorkerEnds(s, "panicked")
    /\ ev' = NoEv
    /\ UNCHANGED <<pc, arg>>

\* lib.rs:89  match tx.send(v): Ok loops, Err (the receiver is gone) breaks. The
\* send waits while the channel's one slot is taken.
WorkerSend_ignore_err(s) ==
    /\ wk[s].pc = "send"
    /\ Len(chan[s].buf) < 1
    /\ chan' = [chan EXCEPT ![s].buf =
                   IF chan[s].rx = "dropped" THEN <<>> ELSE Append(@, wk[s].v)]
    /\ wk' = [wk EXCEPT ![s].pc = "read", ![s].v = 0]
    /\ ev' = NoEv
    /\ UNCHANGED <<fdtab, cnt, kflags, hnd, acc, ref, badClose, pc, arg>>
WorkerSend_cap2(s) ==
    /\ wk[s].pc = "send"
    /\ IF chan[s].rx = "dropped"
       THEN /\ WorkerEnds(s, "done")
            /\ ev' = NoEv
       ELSE /\ Len(chan[s].buf) < 2
            /\ chan' = [chan EXCEPT ![s].buf = Append(@, wk[s].v)]
            /\ wk' = [wk EXCEPT ![s].pc = "read", ![s].v = 0]
            /\ ev' = NoEv
            /\ UNCHANGED <<fdtab, cnt, kflags, hnd, acc, ref, badClose>>
    /\ UNCHANGED <<pc, arg>>
WorkerSend_overwrite(s) ==
    /\ wk[s].pc = "send"
    /\ IF chan[s].rx = "dropped"
       THEN /\ WorkerEnds(s, "done")
            /\ ev' = NoEv
       ELSE /\ chan' = [chan EXCEPT ![s].buf = <<wk[s].v>>]
            /\ wk' = [wk EXCEPT ![s].pc = "read", ![s].v = 0]
            /\ ev' = NoEv
            /\ UNCHANGED <<fdtab, cnt, kflags, hnd, acc, ref, badClose>>
    /\ UNCHANGED <<pc, arg>>
WorkerSend(s) ==
    /\ wk[s].pc = "send"
    /\ IF chan[s].rx = "dropped"
       THEN /\ WorkerEnds(s, "done")
            /\ ev' = NoEv
       ELSE /\ Len(chan[s].buf) < 1
            /\ chan' = [chan EXCEPT ![s].buf = Append(@, wk[s].v)]
            /\ wk' = [wk EXCEPT ![s].pc = "read", ![s].v = 0]
            /\ ev' = NoEv
            /\ UNCHANGED <<fdtab, cnt, kflags, hnd, acc, ref, badClose>>
    /\ UNCHANGED <<pc, arg>>

\* rx.recv() by the thread that holds the receiver: the next value, or the end of
\* the stream when the sender is gone and the slot is empty.
Recv(t, s) ==
    /\ pc[t] = "idle"
    /\ chan[s].rx = t
    /\ IF chan[s].buf # <<>>
       THEN /\ chan' = [chan EXCEPT ![s].buf = Tail(@)]
            /\ ev' = [NoEv EXCEPT !.op = "recv", !.kind = "Ok",
                                  !.val = Head(chan[s].buf)]
       ELSE /\ ~chan[s].tx
            /\ UNCHANGED chan
            /\ ev' = [NoEv EXCEPT !.op = "recv", !.kind = "Closed"]
    /\ UNCHANGED <<fdtab, cnt, kflags, hnd, pc, arg, wk, acc, ref, badClose>>

\* The receiver of stream s is dropped by the thread that holds it.
DropRx(t, s) ==
    /\ pc[t] = "idle"
    /\ chan[s].rx = t
    /\ DropReceivers({s})
    /\ ev' = NoEv
    /\ UNCHANGED <<fdtab, cnt, kflags, hnd, pc, arg, acc, ref, badClose>>

\* -------------------------------------------------------------- scenarios
\* The call sequences of the crate's tests and of the documented examples, with
\* their values drawn from the callers' ranges. must: the test unwraps the
\* result, so an Err panics the thread.
Ins(op, h, v, f, must) == [op |-> op, h |-> h, v |-> v, f |-> f, must |-> must]
SEMA == {EFD_SEMAPHORE, EFD_NONBLOCK}

\* create(v, NONE); read()
first_read(t) ==
    IF t = "main"
    THEN <<Ins("new", 0, par.v, {}, FALSE), Ins("read", 1, 0, {}, FALSE)>>
    ELSE <<>>

\* create(0, NONE); write(a); write(b); read()
coalesce(t) ==
    IF t = "main"
    THEN <<Ins("new", 0, 0, {}, FALSE), Ins("write", 1, par.a, {}, FALSE),
           Ins("write", 1, par.b, {}, FALSE), Ins("read", 1, 0, {}, FALSE)>>
    ELSE <<>>

\* lib.rs:157  test_sema, with a for the 5 written: n reads after the write, then
\* one more.
test_sema(t) ==
    IF t = "main"
    THEN <<Ins("new", 0, 0, SEMA, TRUE), Ins("read", 1, 0, {}, FALSE),
           Ins("write", 1, par.a, {}, TRUE)>>
         \o [k \in 1..par.a |-> Ins("read", 1, 0, {}, TRUE)]
         \o <<Ins("read", 1, 0, {}, FALSE)>>
    ELSE <<>>

\* lib.rs:213  test_chan, with v for the 10 and a for the 1: the handle is sent
\* to the second thread, which reads it.
test_chan(t) ==
    IF t = "main"
    THEN <<Ins("new", 0, par.v, {}, TRUE), Ins("write", 1, par.a, {}, TRUE),
           Ins("move", 1, 0, {}, FALSE)>>
    ELSE <<Ins("await", 1, 0, {}, FALSE), Ins("read", 1, 0, {}, TRUE),
           Ins("drop", 1, 0, {}, FALSE)>>

\* lib.rs:134  test_basic, with v, w, a, b for 10, 7, 1, 2. The spawned thread
\* owns the clone; its tx.send(()) is "signal", main's rx.recv() is "wait".
test_basic(t) ==
    IF t = "main"
    THEN <<Ins("new", 0, par.v, {}, TRUE), Ins("clone", 1, 0, {}, FALSE),
           Ins("read", 1, 0, {}, TRUE), Ins("move", 2, 0, {}, FALSE),
           Ins("write", 1, par.w, {}, TRUE), Ins("wait", 0, 0, {}, FALSE),
           Ins("read", 1, 0, {}, TRUE), Ins("drop", 1, 0, {}, FALSE)>>
    ELSE <<Ins("await", 2, 0, {}, FALSE), Ins("read", 2, 0, {}, TRUE),
           Ins("write", 2, par.a, {}, TRUE), Ins("write", 2, par.b, {}, TRUE),
           Ins("signal", 0, 0, {}, FALSE), Ins("drop", 2, 0, {}, FALSE)>>

\* lib.rs:196  test_stream, with v for the 11 and a for the 10 taken: the
\* receiver is a temporary of the for statement and efd a local of the test.
test_stream(t) ==
    IF t = "main"
    THEN <<Ins("new", 0, par.v, {EFD_SEMAPHORE}, TRUE),
           Ins("events", 1, 0, {}, FALSE)>>
         \o [k \in 1..par.a |-> Ins("recv", 0, 0, {}, FALSE)]
         \o <<Ins("droprx", 0, 0, {}, FALSE), Ins("drop", 1, 0, {}, FALSE)>>
    ELSE <<>>

\* create(0, NONE); events(); write(a); recv(); write(b); recv()
stream_order(t) ==
    IF t = "main"
    THEN <<Ins("new", 0, 0, {}, FALSE), Ins("events", 1, 0, {}, FALSE),
           Ins("write", 1, par.a, {}, FALSE), Ins("recv", 0, 0, {}, FALSE),
           Ins("write", 1, par.b, {}, FALSE), Ins("recv", 0, 0, {}, FALSE)>>
    ELSE <<>>

Prog(t) ==
    CASE script = "first_read" -> first_read(t)
      [] script = "test_stream" -> test_stream(t)
      [] script = "stream_order" -> stream_order(t)
      [] script = "coalesce" -> coalesce(t)
      [] script = "test_sema" -> test_sema(t)
      [] script = "test_chan" -> test_chan(t)
      [] script = "test_basic" -> test_basic(t)
      [] OTHER -> <<>>

Other(t) == IF t = "main" THEN "second" ELSE "main"
Result(kind, val) == [kind |-> kind, val |-> val]
Advance(t, r) ==
    /\ ip' = [ip EXCEPT ![t] = @ + 1]
    /\ out' = [out EXCEPT ![t] = Append(@, r)]
    /\ UNCHANGED <<script, par>>

\* The instruction before the next one was unwrapped and had failed.
MustPanic(t) ==
    /\ ip[t] > 1
    /\ Prog(t)[ip[t] - 1].must
    /\ out[t][ip[t] - 1].kind # "Ok"

\* "signal" has been executed by thread t, or t is dead and its sender dropped.
Signalled(t) ==
    \/ pc[t] = "panicked"
    \/ \E k \in 1..(ip[t] - 1) : Prog(t)[k].op = "signal"

\* Thread t takes the next step of its scenario.
Run(t) ==
    /\ script # "free"
    /\ pc[t] # "panicked"
    /\ IF MustPanic(t)
       THEN Panic(t) /\ UNCHANGED <<script, par, ip, out>>
       ELSE /\ ip[t] <= Len(Prog(t))
            /\ LET i == Prog(t)[ip[t]] IN
               CASE i.op = "new" ->
                      /\ Create(t, i.v, i.f)
                      /\ Advance(t, Result(EventFD_new(i.v, i.f).kind, 0))
                 [] i.op = "read" ->
                      \/ ReadCall(t, i.h) /\ UNCHANGED <<script, par, ip, out>>
                      \/ ReadReturn(t) /\ Advance(t, Result(ev'.kind, ev'.val))
                 [] i.op = "write" ->
                      \/ WriteCall(t, i.h, i.v) /\ UNCHANGED <<script, par, ip, out>>
                      \/ WriteReturn(t) /\ Advance(t, Result(ev'.kind, 0))
                 [] i.op = "clone" ->
                      Clone(t, i.h) /\ Advance(t, Result("Ok", 0))
                 [] i.op = "move" ->
                      Move(t, i.h, Other(t)) /\ Advance(t, Result("Ok", 0))
                 [] i.op = "drop" ->
                      Drop(t, i.h) /\ Advance(t, Result("Ok", 0))
                 [] i.op = "events" ->
                      Events(t, i.h) /\ Advance(t, Result("Ok", 0))
                 [] i.op = "recv" ->
                      Recv(t, 1) /\ Advance(t, Result(ev'.kind, ev'.val))
                 [] i.op = "droprx" ->
                      DropRx(t, 1) /\ Advance(t, Result("Ok", 0))
                 [] i.op = "await" ->
                      /\ i.h \in Owned(t)
                      /\ ev' = NoEv /\ UNCHANGED core
                      /\ Advance(t, Result("Ok", 0))
                 [] i.op = "signal" ->
                      /\ ev' = NoEv /\ UNCHANGED core
                      /\ Advance(t, Result("Ok", 0))
                 [] i.op = "wait" ->
                      /\ Signalled(Other(t))
                      /\ ev' = NoEv /\ UNCHANGED core
                      /\ Advance(t, Result("Ok", 0))

\* ------------------------------------------------------------------- Spec
Scenarios ==
    {[s |-> "free", v |-> 0, w |-> 0, a |-> 0, b |-> 0]}
    \cup {[s |-> "first_read", v |-> v, w |-> 0, a |-> 0, b |-> 0] : v \in InitVals}
    \cup {[s |-> "coalesce", v |-> 0, w |-> 0, a |-> a, b |-> b] :
             a \in WriteVals, b \in WriteVals}
    \cup {[s |-> "test_sema", v |-> 0, w |-> 0, a |-> a, b |-> 0] :
             a \in 0..MaxCount}
    \cup {[s |-> "test_chan", v |-> v, w |-> 0, a |-> a, b |-> 0] :
             v \in InitVals, a \in WriteVals}
    \cup {[s |-> "test_stream", v |-> v, w |-> 0, a |-> k, b |-> 0] :
             v \in InitVals, k \in 0..(U32Max + 1)}
    \cup {[s |-> "stream_order", v |-> 0, w |-> 0, a |-> a, b |-> b] :
             a \in WriteVals, b \in WriteVals}
    \cup {[s |-> "test_basic", v |-> x[1], w |-> x[2], a |-> x[3], b |-> x[4]] :
             x \in InitVals \X WriteVals \X WriteVals \X WriteVals}

Init ==
    /\ CoreInit
    /\ \E c \in Scenarios :
          /\ script = c.s
          /\ par = [v |-> c.v, w |-> c.w, a |-> c.a, b |-> c.b]
    /\ ip = [t \in Threads |-> 1]
    /\ out = [t \in Threads |-> <<>>]

\* Free running: main creates, duplicates, streams and hands handles over; both
\* threads read, write, duplicate and drop the handles they own.
FreeRun == script = "free" /\ UNCHANGED <<script, par, ip, out>>

\* The worker of a stream runs on its own thread in every scenario.
Background == UNCHANGED <<script, par, ip, out>>

Next ==
    \/ \E v \in InitVals, f \in EfdFlags : FreeRun /\ Create("main", v, f)
    \/ \E t \in Threads, h \in Handles : FreeRun /\ ReadCall(t, h)
    \/ \E t \in Threads : FreeRun /\ ReadReturn(t)
    \/ \E t \in Threads, h \in Handles, v \in WriteVals :
          FreeRun /\ WriteCall(t, h, v)
    \/ \E t \in Threads : FreeRun /\ WriteReturn(t)
    \/ \E t \in Threads, h \in Handles : FreeRun /\ Clone(t, h)
    \/ \E t \in Threads, h \in Handles : FreeRun /\ Drop(t, h)
    \/ \E h \in Handles : FreeRun /\ Move("main", h, "second")
    \/ \E h \in Handles : FreeRun /\ Events("main", h)
    \/ \E s \in Streams : Background /\ WorkerRead(s)
    \/ \E s \in Streams : Background /\ WorkerPanic(s)
    \/ \E s \in Streams : Background /\ WorkerSend(s)
    \/ \E s \in Streams : FreeRun /\ Recv("main", s)
    \/ \E s \in Streams : FreeRun /\ DropRx("main", s)
    \/ \E t \in Threads : Run(t)

Spec == Init /\ [][Next]_vars

\* ----------------------------------------------------------------- claims
Obj(h) == fdtab[hnd[h].fd]
ReadPending(t, k) == ip[t] = k /\ pc[t] = "read"

\* C1: in non-semaphore mode a read served while the counter holds c > 0 returns
\* Ok(c) and leaves the counter at 0 in the same step; it never fails while
\* c > 0 and never returns 0.
C1_ReadDrains ==
    [][(ev'.op = "read" /\ ev'.obj # 0 /\ EFD_SEMAPHORE \notin ev'.flags) =>
          /\ cnt[ev'.obj] > 0 => ev'.kind = "Ok"
          /\ ev'.kind = "Ok" =>
                /\ cnt[ev'.obj] > 0
                /\ ev'.val = cnt[ev'.obj]
                /\ ev'.val # 0
                /\ cnt'[ev'.obj] = 0]_vars

\* C1 witness: a non-semaphore read has just returned the largest counter value
\* and the counter is 0.
C1_Witness ==
    /\ ev.op = "read" /\ ev.kind = "Ok" /\ EFD_SEMAPHORE \notin ev.flags
    /\ ev.val = MaxCount
    /\ cnt[ev.obj] = 0

\* What test_sema's k-th call returns: WouldBlock before the write, Ok for the
\* write, Ok(1) for each of the n reads after it, WouldBlock for the next one.
SemaExpected(k) ==
    CASE k = 1 -> Result("Ok", 0)
      [] k = 2 -> Result("WouldBlock", 0)
      [] k = 3 -> Result("Ok", 0)
      [] k > 3 /\ k <= 3 + par.a -> Result("Ok", 1)
      [] OTHER -> Result("WouldBlock", 0)

SemaScript ==
    script = "test_sema" =>
        \A k \in 1..Len(out["main"]) : out["main"][k] = SemaExpected(k)

\* C2: a read through a semaphore handle returns Ok(1) and takes exactly 1 off the
\* counter whenever units are left (initial value + deltas written - reads
\* served), and with none left it returns only on a non-blocking handle, with
\* WouldBlock and the counter unchanged; test_sema's calls return what the test
\* expects for every written n.
C2_Semaphore ==
    [][/\ SemaScript'
       /\ (ev'.op = "read" /\ ev'.obj # 0 /\ EFD_SEMAPHORE \in ev'.flags) =>
             IF acc[ev'.obj] > 0
             THEN /\ ev'.kind = "Ok" /\ ev'.val = 1
                  /\ cnt'[ev'.obj] = cnt[ev'.obj] - 1
             ELSE /\ EFD_NONBLOCK \in ev'.flags
                  /\ ev'.kind = "WouldBlock"
                  /\ cnt'[ev'.obj] = cnt[ev'.obj]]_vars

\* C2 witness: test_sema has run to its end with the largest n that fits.
C2_Witness ==
    /\ script = "test_sema" /\ par.a = MaxCount
    /\ Len(out["main"]) = 4 + MaxCount
    /\ out["main"][4 + MaxCount].kind = "WouldBlock"

\* The general part of C3: what a read through a non-semaphore handle returns is
\* the initial value plus the deltas written since creation or the previous read.
ReadsTheSum ==
    \A h \in LiveHandles :
        (EFD_SEMAPHORE \notin hnd[h].flags /\ EventFD_read(h).kind = "Ok")
            => EventFD_read(h).val = acc[Obj(h)]

\* test_chan: the second thread's read returns v + a.
ChanScript ==
    (script = "test_chan" /\ Len(out["second"]) >= 2)
        => out["second"][2] = Result("Ok", par.v + par.a)

\* C3 as stated: create(0, NONE), write(a), write(b), read() returns a + b for
\* all a, b.
C3_Original ==
    /\ ReadsTheSum
    /\ ChanScript
    /\ script = "coalesce" =>
          /\ ReadPending("main", 4) =>
                /\ EventFD_read(1).kind = "Ok"
                /\ EventFD_read(1).val = par.a + par.b
          /\ Len(out["main"]) = 4 =>
                out["main"][4] = Result("Ok", par.a + par.b)

\* C3 amended: the same for all a, b with 1 <= a + b <= 2^64 - 2.
C3_Coalesce ==
    /\ ReadsTheSum
    /\ ChanScript
    /\ (script = "coalesce" /\ par.a + par.b \in 1..MaxCount) =>
          /\ ReadPending("main", 4) =>
                /\ EventFD_read(1).kind = "Ok"
                /\ EventFD_read(1).val = par.a + par.b
          /\ Len(out["main"]) = 4 =>
                out["main"][4] = Result("Ok", par.a + par.b)

\* C3 witness: create(0, NONE), write(1), write(1), read() has returned 2.
C3_Witness ==
    /\ script = "coalesce" /\ par.a = 1 /\ par.b = 1
    /\ Len(out["main"]) = 4
    /\ out["main"][4] = Result("Ok", 2)

\* C4 as stated: create(v, NONE) then read() returns v, for all v.
C4_Original ==
    script = "first_read" =>
        /\ ReadPending("main", 2) =>
              /\ EventFD_read(1).kind = "Ok"
              /\ EventFD_read(1).val = par.v
        /\ Len(out["main"]) = 2 =>
              out["main"][2] = Result("Ok", par.v) /\ cnt[Obj(1)] = 0

\* C4 amended: for all v > 0, create(v, NONE) then read() returns v and the
\* counter is then 0; for v = 0 the read does not return.
C4_FirstRead ==
    script = "first_read" =>
        /\ (par.v > 0 /\ ReadPending("main", 2)) =>
              /\ EventFD_read(1).kind = "Ok"
              /\ EventFD_read(1).val = par.v
        /\ Len(out["main"]) = 2 =>
              /\ par.v > 0
              /\ out["main"][2] = Result("Ok", par.v)
              /\ cnt[Obj(1)] = 0

\* C4 witness: the read after create(U32Max, NONE) has returned U32Max.
C4_Witness ==
    /\ script = "first_read" /\ par.v = U32Max
    /\ Len(out["main"]) = 2
    /\ out["main"][2] = Result("Ok", U32Max)

\* Every live handle's descriptor is open on the counter object the handle was
\* created on or duplicated from.
OnItsCounter ==
    \A h \in LiveHandles : ref[h] # 0 /\ fdtab[hnd[h].fd] = ref[h]

\* C5: a handle and its duplicates stay on one live kernel counter, and a step
\* that destroys some handles leaves every surviving handle as it was: same
\* descriptor, still open on the same counter, counter value and mode kept.
C5_SharedCounter ==
    [][/\ OnItsCounter'
       /\ \A h \in Handles, i \in Handles :
             (hnd[h] # NoHandle /\ hnd'[h] = NoHandle /\ hnd[i] # NoHandle
                  /\ hnd'[i] # NoHandle) =>
                /\ hnd'[i] = hnd[i]
                /\ fdtab'[hnd[i].fd] = fdtab[hnd[i].fd]
                /\ fdtab'[hnd[i].fd] # 0
                /\ cnt'[fdtab[hnd[i].fd]] = cnt[fdtab[hnd[i].fd]]
                /\ kflags'[fdtab[hnd[i].fd]] = kflags[fdtab[hnd[i].fd]]]_vars

\* C5 witness: of a handle and its duplicate one is destroyed, and the other is
\* still on the counter, which holds the value written before.
C5_Witness ==
    /\ script = "free"
    /\ hnd[1] = NoHandle
    /\ hnd[2] # NoHandle
    /\ fdtab[hnd[2].fd] = ref[2]
    /\ cnt[ref[2]] = MaxCount

\* C6: the descriptor of every live handle is open, no two live handles hold the
\* same descriptor, no descriptor stays open without a handle, no close ever hit
\* a descriptor that was closed already or that another handle held, and every
\* read or write in progress, the stream worker's included, is on a live handle
\* of the caller.
C6_Descriptors ==
    /\ ~badClose
    /\ \A h \in LiveHandles : fdtab[hnd[h].fd] # 0
    /\ \A h \in LiveHandles, i \in LiveHandles : h # i => hnd[h].fd # hnd[i].fd
    /\ \A fd \in Fds : fdtab[fd] # 0 => \E h \in LiveHandles : hnd[h].fd = fd
    /\ \A t \in Threads : pc[t] \in {"read", "write"} =>
          arg[t].h \in LiveHandles /\ hnd[arg[t].h].owner = User(t)
    /\ \A s \in Streams : wk[s].pc \in {"read", "send", "failed"} =>
          wk[s].h \in LiveHandles /\ hnd[wk[s].h].owner = Worker(s)

\* C6 witness: the stream's worker reads through its duplicate after the handle
\* events() was called on has been destroyed.
C6_Witness ==
    /\ wk[1].pc = "read"
    /\ LiveHandles = {wk[1].h}
    /\ fdtab[hnd[wk[1].h].fd] # 0
    /\ \E fd \in Fds : fdtab[fd] = 0

\* C7: in every interleaving of test_basic main's first read returns v, the second
\* thread's read returns the w main wrote, and main's final read, after the
\* second thread's signal, returns the a + b that thread wrote.
C7_Basic ==
    script = "test_basic" =>
        /\ Len(out["main"]) >= 3 => out["main"][3] = Result("Ok", par.v)
        /\ Len(out["second"]) >= 2 => out["second"][2] = Result("Ok", par.w)
        /\ (Len(out["main"]) >= 7 /\ pc["second"] # "panicked") =>
              out["main"][7] = Result("Ok", par.a + par.b)

\* C7 witness: both threads of test_basic have run to their ends.
C7_Witness ==
    /\ script = "test_basic"
    /\ par.v = 1 /\ par.w = 1 /\ par.a = 1 /\ par.b = 1
    /\ Len(out["main"]) = 8
    /\ Len(out["second"]) = 6
    /\ out["main"][7] = Result("Ok", 2)

\* A read in progress through a handle created without EFD_NONBLOCK.
BlockingRead(t) == pc[t] = "read" /\ EFD_NONBLOCK \notin hnd[arg[t].h].flags

\* C8: a read in progress on a handle created without EFD_NONBLOCK can return
\* exactly when the counter is non-zero, and then returns a value; with the
\* blocked reader woken by the kernel, a read that finds the counter non-zero
\* has returned or another reader has emptied the counter.
C8_BlockingRead ==
    /\ [](\A t \in Threads : BlockingRead(t) =>
              /\ (ENABLED ReadReturn(t)) <=> cnt[Obj(arg[t].h)] > 0
              /\ EventFD_read(arg[t].h).kind \in {"block", "Ok"})
    /\ \A t \in Threads :
          (BlockingRead(t) /\ cnt[Obj(arg[t].h)] > 0)
              ~> (pc[t] # "read" \/ \A o \in Objs : cnt[o] = 0)

\* C8 witness: the second thread of test_basic is in its read, the counter was 0
\* since main's read, and main's write has just made it w.
C8_Witness ==
    /\ script = "test_basic"
    /\ BlockingRead("second")
    /\ ip["main"] = 6
    /\ ev.op = "write" /\ ev.kind = "Ok"
    /\ par.w > 0
    /\ cnt[Obj(2)] = par.w
    /\ ENABLED ReadReturn("second")

\* A read in progress through a handle created with EFD_NONBLOCK is never made
\* to wait.
NonblockNeverWaits ==
    \A t \in Threads :
        (pc[t] = "read" /\ EFD_NONBLOCK \in hnd[arg[t].h].flags)
            => EventFD_read(arg[t].h).kind # "block"

\* C9: a read through a handle created with EFD_NONBLOCK is never made to wait,
\* and served while the counter is 0 it returns WouldBlock and leaves the
\* counter, its mode, the descriptors and the handles as they were.
C9_WouldBlock ==
    [][/\ NonblockNeverWaits'
       /\ (ev'.op = "read" /\ ev'.obj # 0 /\ EFD_NONBLOCK \in ev'.flags
              /\ cnt[ev'.obj] = 0) =>
             /\ ev'.kind = "WouldBlock"
             /\ UNCHANGED <<cnt, kflags, fdtab, hnd, ref, acc>>]_vars

\* C9 witness: a non-semaphore, non-blocking read has just returned WouldBlock.
C9_Witness ==
    /\ ev.op = "read" /\ ev.kind = "WouldBlock"
    /\ ev.flags = {EFD_NONBLOCK}
    /\ cnt[ev.obj] = 0

\* C10: every counter stays within 0 .. 2^64 - 2, and a write that returns Ok
\* has added exactly its value, without wrapping; a write that returns an error
\* has left the counter as it was.
C10_Range ==
    [][/\ \A o \in Objs : cnt'[o] \in 0..MaxCount
       /\ \A t \in Threads :
             (pc[t] = "write" /\ pc'[t] = "idle") =>
                IF ev'.kind = "Ok"
                THEN cnt'[ev'.obj] = cnt[ev'.obj] + arg[t].val
                ELSE cnt' = cnt]_vars

\* C10 witness: with the counter at 2^64 - 2 a non-blocking write of 1 has just
\* returned WouldBlock.
C10_Witness ==
    /\ ev.op = "write" /\ ev.kind = "WouldBlock"
    /\ cnt[ev.obj] = MaxCount

\* The step of Next in which the read of thread t is served.
ReadServed(t) == pc[t] = "read" /\ ((FreeRun /\ ReadReturn(t)) \/ Run(t))

\* The kernel wakes a reader whose read can be served.
LiveSpec == Spec /\ \A t \in Threads : WF_vars(ReadServed(t))

\* A write in progress whose addition would take the counter to 2^64 - 1 or more.
WriteOverflows(t) ==
    pc[t] = "write" /\ cnt[Obj(arg[t].h)] + arg[t].val >= U64Max

\* C11 as stated: every write whose addition would reach 2^64 - 1 fails with
\* WouldBlock on a non-blocking handle and stays suspended on a blocking one.
C11_Original ==
    \A t \in Threads : WriteOverflows(t) =>
        IF EFD_NONBLOCK \in hnd[arg[t].h].flags
        THEN EventFD_write(arg[t].h, arg[t].val).kind = "WouldBlock"
        ELSE ~ENABLED WriteReturn(t)

\* C11 amended: a write of a delta of at most 2^64 - 2 whose addition would reach
\* 2^64 - 1 fails with WouldBlock on a non-blocking handle and cannot return on a
\* blocking one, whose result is Ok as soon as the counter has room; a write of
\* 2^64 - 1 returns InvalidInput on either; a served write adds the whole delta
\* when it returns Ok and nothing otherwise.
C11_WriteOverflow ==
    /\ [](\A t \in Threads : pc[t] = "write" =>
            LET h == arg[t].h
                r == EventFD_write(h, arg[t].val) IN
            IF arg[t].val = U64Max THEN r.kind = "InvalidInput"
            ELSE IF EFD_NONBLOCK \in hnd[h].flags
            THEN r.kind = IF WriteOverflows(t) THEN "WouldBlock" ELSE "Ok"
            ELSE IF WriteOverflows(t)
            THEN r.kind = "block" /\ ~ENABLED WriteReturn(t)
            ELSE r.kind = "Ok")
    /\ [][\A t \in Threads : (pc[t] = "write" /\ pc'[t] = "idle") =>
            /\ ev'.op = "write"
            /\ cnt'[ev'.obj] = IF ev'.kind = "Ok"
                               THEN cnt[ev'.obj] + arg[t].val
                               ELSE cnt[ev'.obj]
            /\ (WriteOverflows(t) /\ arg[t].val # U64Max) =>
                  (ev'.kind = "WouldBlock" /\ EFD_NONBLOCK \in ev'.flags)]_vars

\* C11 witness: a write of 1 through a blocking handle is suspended with the
\* counter at 2^64 - 2 while the other thread is in a read of the same counter.
C11_Witness ==
    /\ pc["main"] = "write" /\ pc["second"] = "read"
    /\ EFD_NONBLOCK \notin hnd[arg["main"].h].flags
    /\ arg["main"].val = 1
    /\ cnt[Obj(arg["main"].h)] = MaxCount
    /\ Obj(arg["second"].h) = Obj(arg["main"].h)
    /\ ~ENABLED WriteReturn("main")

\* The values stream s's worker has read and its consumer has not received, in
\* the order read: the channel's slot, then the value the worker is sending.
InFlight(s) ==
    chan[s].buf \o (IF wk[s].pc = "send" THEN <<wk[s].v>> ELSE <<>>)

\* How a step may change the values in flight: a worker's read that returned
\* Ok(v) puts v last, a recv that returned Ok(v) takes v from the front, and no
\* other step touches them.
Conveyed(s) ==
    IF wk[s].pc = "read" /\ wk'[s].pc = "send"
    THEN /\ ev'.op = "read" /\ ev'.kind = "Ok" /\ ev'.val > 0
         /\ InFlight(s)' = Append(InFlight(s), ev'.val)
    ELSE IF ev'.op = "recv" /\ ev'.kind = "Ok"
    THEN /\ InFlight(s) # <<>>
         /\ ev'.val = Head(InFlight(s))
         /\ InFlight(s)' = Tail(InFlight(s))
    ELSE InFlight(s)' = InFlight(s)

\* While the channel's slot is taken the sending worker stays as it is, and a
\* write that returns Ok meanwhile adds its value to the counter.
Stalls(s) ==
    (wk[s].pc = "send" /\ Len(chan[s].buf) = 1) =>
        /\ wk'[s] = wk[s]
        /\ \A t \in Threads :
              (pc[t] = "write" /\ pc'[t] = "idle" /\ ev'.kind = "Ok") =>
                 cnt'[ev'.obj] = cnt[ev'.obj] + arg[t].val

\* create(0, NONE), events(), write(a), recv(), write(b), recv(): the recvs that
\* return return a and then b.
OrderScript ==
    script = "stream_order" =>
        /\ Len(out["main"]) >= 4 =>
              par.a \in 1..MaxCount /\ out["main"][4] = Result("Ok", par.a)
        /\ Len(out["main"]) >= 6 =>
              par.b \in 1..MaxCount /\ out["main"][6] = Result("Ok", par.b)

\* C12 as stated: every value the worker obtains from a read is delivered to the
\* consumer exactly once and in the order read, and none is discarded.
C12_Original ==
    [][/\ OrderScript'
       /\ \A s \in Streams : Conveyed(s) /\ (chan[s].rx \in Threads => Stalls(s))]_vars

\* C12 amended: while the receiver is alive, every value the worker obtains from a
\* read is delivered to the consumer exactly once and in the order read, and with
\* the channel full the worker stalls in its send while writes accumulate in the
\* counter; the values in flight when the receiver is dropped are discarded.
C12_NoDrop ==
    [][/\ OrderScript'
       /\ \A s \in Streams :
             IF chan[s].rx \in Threads /\ chan'[s].rx = chan[s].rx
             THEN Conveyed(s) /\ Stalls(s)
             ELSE chan'[s].rx \notin Threads =>
                     (chan'[s].buf = <<>> /\ ev'.op # "recv")]_vars

\* C12 witness: create(0, NONE), events(), write(1), recv(), write(2^64 - 2),
\* recv() has received 1 and then 2^64 - 2.
C12_Witness ==
    /\ script = "stream_order" /\ par.a = 1 /\ par.b = MaxCount
    /\ Len(out["main"]) = 6
    /\ out["main"][4] = Result("Ok", 1)
    /\ out["main"][6] = Result("Ok", MaxCount)

\* The worker of stream s is running: in its read, in its send, or about to panic.
Running(s) == wk[s].pc \in {"read", "send", "failed"}

\* C13: a worker whose reads succeed leaves its loop only by a push that fails
\* because the receiver is dropped, however long the receiver goes unpolled; with
\* the receiver dropped a worker in its push can take that step, which ends it
\* without another read; and a worker in a read on a blocking handle with the
\* counter at 0 stays in that read, receiver dropped or not, and can be served
\* once the counter is non-zero.
C13_WorkerExit ==
    /\ [](\A s \in Streams :
            /\ (wk[s].pc = "send" /\ chan[s].rx = "dropped") =>
                  ENABLED WorkerSend(s)
            /\ (wk[s].pc = "read" /\ EFD_NONBLOCK \notin hnd[wk[s].h].flags) =>
                  ((ENABLED WorkerRead(s)) <=> cnt[Obj(wk[s].h)] > 0))
    /\ [][\A s \in Streams :
            /\ (Running(s) /\ ~Running(s)' /\ wk[s].pc # "failed") =>
                  (wk[s].pc = "send" /\ chan[s].rx = "dropped")
            /\ (wk[s].pc = "send" /\ chan[s].rx = "dropped" /\ wk'[s] # wk[s]) =>
                  (~Running(s)' /\ ev'.op # "read" /\ hnd'[wk[s].h] = NoHandle)
            /\ (wk[s].pc = "send" /\ chan[s].rx \in Threads
                   /\ chan'[s].rx \in Threads) => Running(s)'
            /\ (wk[s].pc = "read" /\ EFD_NONBLOCK \notin hnd[wk[s].h].flags
                   /\ cnt[Obj(wk[s].h)] = 0) => wk'[s] = wk[s]]_vars

\* C13 witness: the receiver is dropped, the worker holds a value it has read and
\* is at its push, and the handle events() was called on is still alive.
C13_Witness ==
    /\ wk[1].pc = "send" /\ wk[1].v > 0
    /\ chan[1].rx = "dropped"
    /\ \E h \in LiveHandles : h # wk[1].h
    /\ cnt[Obj(wk[1].h)] = 0

\* A step of the worker of stream s.
WorkerStep(s) == Background /\ (WorkerRead(s) \/ WorkerSend(s) \/ WorkerPanic(s))

\* The kernel wakes a reader whose read can be served, and a worker that can run
\* again and again does run.
FairSpec ==
    /\ Spec
    /\ \A t \in Threads : WF_vars(ReadServed(t))
    /\ \A s \in Streams : SF_vars(WorkerStep(s))

\* C14: once the receiver of a stream is dropped, the stream's worker eventually
\* ends and its duplicate descriptor is closed.
C14_Terminates ==
    \A s \in Streams :
        (chan[s].rx = "dropped" /\ Running(s)) ~> ~Running(s)

\* C15: on a handle created with EFD_NONBLOCK the worker's read of a counter at 0
\* does not end the worker: after any step the worker is still in its loop, at
\* its read.
C15_SpinLoop ==
    [][\A s \in Streams :
          (wk[s].pc = "read" /\ EFD_NONBLOCK \in hnd[wk[s].h].flags
              /\ cnt[Obj(wk[s].h)] = 0) => wk'[s].pc = "read"]_vars

\* C16: when the worker has ended because its read failed, the consumer's recv
\* does not report a plain end of the stream.
C16_FailureDelivered ==
    [][\A s \in Streams :
          (wk[s].pc = "panicked" /\ chan[s].rx \in Threads /\ ev'.op = "recv")
              => ev'.kind # "Closed"]_vars

\* What the consumer of test_stream has received so far.
Taken == SubSeq(out["main"], 3, IF Len(out["main"]) < 2 + par.a
                                 THEN Len(out["main"]) ELSE 2 + par.a)

\* The consumer of test_stream is at a recv.
AtRecv == ip["main"] \in 3..(2 + par.a) /\ pc["main"] = "idle"

DupRefused(t, h) ==
    pc[t] = "idle" /\ h \in Owned(t) /\ EventFD_clone(h).ret # "ok"

\* C18: where the kernel refuses the duplicate, no step unwinds the caller or
\* destroys the handle it called clone() or events() on: the failure is a result
\* the caller goes on with.
C18_DupError ==
    [][\A t \in Threads, h \in Handles :
          (script = "free" /\ DupRefused(t, h) /\ pc'[t] # pc[t]) =>
             (pc'[t] # "panicked" /\ hnd'[h] = hnd[h])]_vars

\* C19: for every live counter, the initial value plus the deltas of the writes
\* that returned Ok, less the values the reads that returned Ok returned (through
\* any handle, the workers' reads included), is the counter's value; a read or
\* write that returns an error changes neither side.
C19_Conservation ==
    /\ [](\A o \in Objs : acc[o] = cnt[o] /\ (~LiveObj(o) => cnt[o] = 0))
    /\ [][(ev'.op \in {"read", "write"} /\ ev'.kind # "Ok") =>
             UNCHANGED <<cnt, acc>>]_vars

\* C19 witness: the worker has taken a value out of the counter, writes through
\* the user's handle have since filled it, and one more write has just failed.
C19_Witness ==
    /\ wk[1].pc = "send" /\ wk[1].v > 0
    /\ ev.op = "write" /\ ev.kind = "WouldBlock"
    /\ cnt[ev.obj] = MaxCount
    /\ Obj(wk[1].h) = ev.obj

\* C20: at most two values are in flight, one in the channel's slot and one held
\* by the worker in its send; a worker in its send cannot read; and when the
\* receiver is dropped, or the worker's push then fails, the values in flight go
\* to nobody and the counter is left as it was.
C20_ReadAhead ==
    /\ [](\A s \in Streams :
            /\ Len(chan[s].buf) <= 1
            /\ Len(InFlight(s)) <= 2
            /\ wk[s].pc = "send" => ~ENABLED WorkerRead(s))
    /\ [][\A s \in Streams :
            /\ (wk[s].pc = "send" /\ wk'[s] # wk[s]) => ev'.op # "read"
            /\ (chan[s].rx \in Threads /\ chan'[s].rx \notin Threads) =>
                  /\ chan'[s].buf = <<>>
                  /\ ev'.op # "recv"
                  /\ \A o \in Objs : LiveObj(o)' => cnt'[o] = cnt[o]
            /\ (wk[s].pc = "send" /\ chan[s].rx = "dropped" /\ wk'[s] # wk[s]) =>
                  /\ ~Running(s)'
                  /\ \A o \in Objs : LiveObj(o)' => cnt'[o] = cnt[o]]_vars

\* C20 witness: one value is in the channel's slot, the worker holds the next in
\* its send, and the counter holds more.
C20_Witness ==
    /\ chan[1].rx = "main"
    /\ Len(chan[1].buf) = 1
    /\ wk[1].pc = "send"
    /\ Len(InFlight(1)) = 2
    /\ cnt[Obj(wk[1].h)] > 0

==========================================================================
